---- MODULE Spec2Model ----
(***************************************************************************)
(* Loan / inventory ledger of the equipment loan system (src/app.py).      *)
(*                                                                         *)
(* The persisted store is the tables user, pc, item and loan.  Every route *)
(* handler that touches Loan, PC or Item is one action of the sequential   *)
(* specification Spec; the specification SpecConc splits the same handlers *)
(* at their SQL round trips (SELECTs, flush, COMMIT) so that requests      *)
(* served by different threads interleave.                                 *)
(***************************************************************************)
EXTENDS Integers, Sequences, FiniteSets, TLC

\* ------------------------------------------------------------------ bounds

\* Loans ever created (loan ids are 1..MaxLoans, handed out in order).
MaxLoans == 2
\* Largest stock_total an inventory item is provisioned with.
MaxTotal == 2

\* ------------------------------------------------------------- identifiers

\* A nullable foreign key that is NULL / an empty form field ("if not item_id").
NoId == 0

UserIds == {1, 2}
PcIds == {1, 2}
ItemIds == {1, 2}
LoanIds == 1..MaxLoans
\* The instants datetime.utcnow() shows.
Times == {1, 2}
Clients == {"admin", "staff"}
\* The threads of the server that serve requests side by side (threaded=True).
Workers == {"w1", "w2"}

\* A table row that does not exist.
NoRow == [exists |-> FALSE]
\* A browser without a logged-in session ('user_id' not in session).
NoSession == [user_id |-> NoId, is_admin |-> FALSE]
\* loan.due_date / loan.return_date IS NULL.
NoDate == 0
\* datetime.strptime raised ValueError.
ValueError == -1

VARIABLES
    users,       \* table user:  id -> [is_admin] or NoRow
    session,     \* per browser: the signed session cookie [user_id, is_admin]
    pcs,         \* table pc:    id -> [ok_number, model_type] or NoRow
    items,       \* table item:  id -> [stock_total, stock_available]
    loans,       \* table loan:  id -> loan row or NoRow
    nextLoanId,  \* the autoincrement counter of loan.id
    resp,        \* outcome of the last request served in one piece
    reqs,        \* per worker thread: the request it is serving, step by step
    items0       \* history: table item when the first concurrent request began

vars == <<users, session, pcs, items, loans, nextLoanId, resp, reqs, items0>>

\* ---------------------------------------------------------------- helpers

Max(a, b) == IF a >= b THEN a ELSE b
Min(a, b) == IF a <= b THEN a ELSE b

\* datetime.strptime(due_date_str, "%Y-%m-%d"): the day a well-formed string
\* names, ValueError for anything else.
strptime(s) ==
    CASE s = "0001-01-01" -> 1
      [] s = "0001-01-02" -> 2
      [] s = "0001-01-03" -> 3
      [] OTHER -> ValueError

\* str.strip() of a form field: surrounding blanks removed.
strip(s) ==
    CASE s = " " -> ""
      [] s = " Ann " -> "Ann"
      [] s = " OK3 " -> "OK3"
      [] OTHER -> s

\* Variant: the exclusivity query filters on is_returned=True.
already_out_returned_only(ls, pc_id) ==
    \E l \in LoanIds : ls[l].exists /\ ls[l].pc_id = pc_id /\ ls[l].is_returned

\* Variant: the exclusivity query does not filter on is_returned.
already_out_any_loan(ls, pc_id) ==
    \E l \in LoanIds : ls[l].exists /\ ls[l].pc_id = pc_id

\* Loan.query.filter_by(pc_id=pc_id, is_returned=False).first() is not None
already_out(ls, pc_id) ==
    \E l \in LoanIds : ls[l].exists /\ ls[l].pc_id = pc_id /\ ~ls[l].is_returned

\* Variant: adjust_item_stock without the clamp ("never below 0, never above
\* stock_total" left out).
adjust_item_stock_unclamped(its, item_id, delta) ==
    IF item_id = NoId \/ item_id \notin DOMAIN its THEN its
    ELSE [its EXCEPT ![item_id].stock_available = @ + delta]

\* Variant: adjust_item_stock with the upper limit only ("never below 0" left
\* out).
adjust_item_stock_no_floor(its, item_id, delta) ==
    IF item_id = NoId \/ item_id \notin DOMAIN its THEN its
    ELSE [its EXCEPT ![item_id].stock_available =
             Min(@ + delta, its[item_id].stock_total)]

\* adjust_item_stock(item_id, delta) on the item table `its`.
adjust_item_stock(its, item_id, delta) ==
    IF item_id = NoId THEN its
    ELSE IF item_id \notin DOMAIN its THEN its
    ELSE LET item == its[item_id]
             new_available == item.stock_available + delta
         IN [its EXCEPT ![item_id].stock_available =
                 Max(0, Min(new_available, item.stock_total))]

\* The Item's name column (items are never renamed by the application).
ItemName(item_id) == IF item_id = 1 THEN "Charger" ELSE "Mouse"

\* session.get('is_admin', False) / loan.user_id == session.get('user_id')
is_admin(c) == session[c].is_admin
\* Variant: every logged-in user counts as the owner.
is_owner_any_user(c, loan) == session[c].user_id # NoId
is_owner(c, loan) == loan.user_id = session[c].user_id
logged_in(c) == session[c].user_id # NoId

\* What the handler `op` answers for loan `loan_id`: the category of its flash
\* message ("ok" for success) or the HTTP error it aborts with.
Response(op, status, loan_id) == [op |-> op, status |-> status, loan_id |-> loan_id]

\* The handler returns early (flash + redirect, or abort(404)): nothing is written.
Respond(op, status, loan_id) ==
    /\ resp' = Response(op, status, loan_id)
    /\ UNCHANGED <<users, session, pcs, items, loans, nextLoanId, reqs, items0>>

\* ------------------------------------------------- rows the handlers build

\* due_date as new_loan / edit_loan derive it from the form field.
DueDate(form) ==
    IF form.due_date_str # "" THEN strptime(form.due_date_str) ELSE NoDate

\* "If an Item is selected and item_text is empty, use item name".
ItemText(form) ==
    IF form.item_id # NoId /\ strip(form.item) = ""
    THEN ItemName(form.item_id) ELSE strip(form.item)

\* Loan(...) as new_loan constructs it; is_returned and return_date take the
\* column defaults, checkout_date the default datetime.utcnow.
NewLoanRow(form, sess, now) ==
    [exists |-> TRUE,
     borrower_name |-> strip(form.borrower_name),
     other |-> form.other,
     item |-> ItemText(form),
     checkout_date |-> now,
     due_date |-> DueDate(form),
     return_date |-> NoDate,
     user_id |-> sess.user_id,
     is_returned |-> FALSE,
     pc_id |-> form.pc_id,
     item_id |-> form.item_id]

\* Variant: the edit also reopens the loan.
EditedRow_reopening(loan, form) ==
    [loan EXCEPT !.borrower_name = strip(form.borrower_name),
                 !.other = form.other,
                 !.item = IF form.item_id # NoId /\ strip(form.item) = ""
                          THEN ItemName(form.item_id) ELSE strip(form.item),
                 !.due_date = IF form.due_date_str # "" THEN strptime(form.due_date_str)
                              ELSE NoDate,
                 !.pc_id = form.pc_id,
                 !.item_id = form.item_id,
                 !.is_returned = FALSE,
                 !.return_date = NoDate]

\* Variant: the edit also stamps the loan with a fresh checkout_date default.
EditedRow_checkout_reset(loan, form) ==
    [loan EXCEPT !.borrower_name = strip(form.borrower_name),
                 !.other = form.other,
                 !.item = strip(form.item),
                 !.due_date = IF form.due_date_str # "" THEN strptime(form.due_date_str)
                              ELSE NoDate,
                 !.pc_id = form.pc_id,
                 !.item_id = form.item_id,
                 !.checkout_date = 2]

\* The loan row after edit_loan's "Update loan fields" and loan.item_id = ...
EditedRow(loan, form) ==
    [loan EXCEPT !.borrower_name = strip(form.borrower_name),
                 !.other = form.other,
                 !.item = ItemText(form),
                 !.due_date = DueDate(form),
                 !.pc_id = form.pc_id,
                 !.item_id = form.item_id]

\* Variant: return_loan sets the flag and leaves return_date alone.
ReturnedRow_flag_only(loan, now) ==
    [loan EXCEPT !.is_returned = TRUE]

\* The loan row after return_loan marks it returned.
ReturnedRow(loan, now) ==
    [loan EXCEPT !.is_returned = TRUE, !.return_date = now]

\* Variant: the stock is adjusted whether or not the loan is returned.
StockAfterEdit_any_state(its, loan, new_item_id) ==
    LET old_item_id == loan.item_id
        released == IF old_item_id # NoId
                    THEN adjust_item_stock(its, old_item_id, 1) ELSE its
        reserved == IF new_item_id # NoId
                    THEN adjust_item_stock(released, new_item_id, -1) ELSE released
    IN IF old_item_id # new_item_id THEN reserved ELSE its

\* Variant: the new item is reserved but the old item is not released.
StockAfterEdit_reserve_only(its, loan, new_item_id) ==
    IF ~loan.is_returned /\ loan.item_id # new_item_id /\ new_item_id # NoId
    THEN adjust_item_stock(its, new_item_id, -1) ELSE its

\* edit_loan's "adjust stock if inventory item changed" on the item rows `its`.
StockAfterEdit(its, loan, new_item_id) ==
    LET old_item_id == loan.item_id
        released == IF old_item_id # NoId
                    THEN adjust_item_stock(its, old_item_id, 1) ELSE its
        reserved == IF new_item_id # NoId
                    THEN adjust_item_stock(released, new_item_id, -1) ELSE released
    IN IF ~loan.is_returned /\ old_item_id # new_item_id THEN reserved ELSE its

\* Variant: the item is put back whether or not the loan is returned.
StockAfterDelete_any_state(its, loan) ==
    IF loan.item_id # NoId THEN adjust_item_stock(its, loan.item_id, 1) ELSE its

\* delete_loan's "if loan is still active and has item, put it back in stock".
StockAfterDelete(its, loan) ==
    IF ~loan.is_returned /\ loan.item_id # NoId
    THEN adjust_item_stock(its, loan.item_id, 1) ELSE its

\* Variant: only the due date is checked, the required fields are not.
FormInvalid_due_date_only(form) ==
    form.due_date_str # "" /\ strptime(form.due_date_str) = ValueError

\* The form checks of new_loan and edit_loan: required fields, due-date format.
FormInvalid(form) ==
    \/ form.due_date_str # "" /\ strptime(form.due_date_str) = ValueError
    \/ strip(form.borrower_name) = ""
    \/ strip(form.item) = ""

\* The loan row inserted names a user or a PC that has no row: the foreign key
\* loan.user_id -> user.id or loan.pc_id -> pc.id is violated.
FkViolated(user_id, pc_id) ==
    \/ ~users[user_id].exists
    \/ pc_id # NoId /\ ~pcs[pc_id].exists

\* Whether the database enforces foreign keys: PostgreSQL (DATABASE_URL) does,
\* the SQLite fallback does not (no PRAGMA foreign_keys is issued).
FkEnforced == BOOLEAN

\* ----------------------------------------- the handlers, served in one piece

\* POST /loan/new
new_loan(c, form, now) ==
    /\ nextLoanId <= MaxLoans
    /\ IF ~logged_in(c) THEN Respond("new_loan", "login_required", NoId)
       ELSE IF FormInvalid(form) THEN Respond("new_loan", "invalid", NoId)
       ELSE IF form.pc_id # NoId /\ already_out(loans, form.pc_id)
       THEN Respond("new_loan", "conflict", NoId)
       ELSE \E fk \in FkEnforced :
            IF fk /\ FkViolated(session[c].user_id, form.pc_id)
            THEN Respond("new_loan", "integrity_error", NoId)
            ELSE /\ items' = adjust_item_stock(items, form.item_id, -1)
                 /\ loans' = [loans EXCEPT ![nextLoanId] =
                                 NewLoanRow(form, session[c], now)]
                 /\ nextLoanId' = nextLoanId + 1
                 /\ resp' = Response("new_loan", "ok", nextLoanId)
                 /\ UNCHANGED <<users, session, pcs, reqs, items0>>

\* Variant: return_loan without the "already returned" early return.
return_loan_unchecked(c, loan_id, now) ==
    IF ~logged_in(c) THEN Respond("return_loan", "login_required", loan_id)
    ELSE IF ~loans[loan_id].exists THEN Respond("return_loan", "not_found", loan_id)
    ELSE IF ~is_admin(c) /\ ~is_owner(c, loans[loan_id]) THEN Respond("return_loan", "forbidden", loan_id)
    ELSE /\ loans' = [loans EXCEPT ![loan_id] = ReturnedRow(loans[loan_id], now)]
         /\ items' = adjust_item_stock(items, loans[loan_id].item_id, 1)
         /\ resp' = Response("return_loan",
                              IF loans[loan_id].is_returned THEN "already_returned" ELSE "ok",
                              loan_id)
         /\ UNCHANGED <<users, session, pcs, nextLoanId, reqs, items0>>

\* POST /loan/<loan_id>/return
return_loan(c, loan_id, now) ==
    IF ~logged_in(c) THEN Respond("return_loan", "login_required", loan_id)
    ELSE IF ~loans[loan_id].exists THEN Respond("return_loan", "not_found", loan_id)
    ELSE IF ~is_admin(c) /\ ~is_owner(c, loans[loan_id]) THEN Respond("return_loan", "forbidden", loan_id)
    ELSE IF loans[loan_id].is_returned THEN Respond("return_loan", "already_returned", loan_id)
    ELSE /\ loans' = [loans EXCEPT ![loan_id] = ReturnedRow(loans[loan_id], now)]
         /\ items' = adjust_item_stock(items, loans[loan_id].item_id, 1)
         /\ resp' = Response("return_loan", "ok", loan_id)
         /\ UNCHANGED <<users, session, pcs, nextLoanId, reqs, items0>>

\* Variant: the exclusivity query is made also when the PC stays the same.
edit_loan_own_pc_checked(c, loan_id, form) ==
    IF ~logged_in(c) THEN Respond("edit_loan", "login_required", loan_id)
    ELSE IF ~loans[loan_id].exists THEN Respond("edit_loan", "not_found", loan_id)
    ELSE IF ~is_admin(c) /\ ~is_owner(c, loans[loan_id]) THEN Respond("edit_loan", "forbidden", loan_id)
    ELSE IF FormInvalid(form) THEN Respond("edit_loan", "invalid", loan_id)
    ELSE IF form.pc_id # NoId /\ already_out(loans, form.pc_id)
    THEN Respond("edit_loan", "conflict", loan_id)
    ELSE /\ loans' = [loans EXCEPT ![loan_id] = EditedRow(loans[loan_id], form)]
         /\ items' = StockAfterEdit(items, loans[loan_id], form.item_id)
         /\ resp' = Response("edit_loan", "ok", loan_id)
         /\ UNCHANGED <<users, session, pcs, nextLoanId, reqs, items0>>

\* POST /loan/<loan_id>/edit
edit_loan(c, loan_id, form) ==
    IF ~logged_in(c) THEN Respond("edit_loan", "login_required", loan_id)
    ELSE IF ~loans[loan_id].exists THEN Respond("edit_loan", "not_found", loan_id)
    ELSE IF ~is_admin(c) /\ ~is_owner(c, loans[loan_id]) THEN Respond("edit_loan", "forbidden", loan_id)
    ELSE IF FormInvalid(form) THEN Respond("edit_loan", "invalid", loan_id)
    ELSE IF /\ form.pc_id # NoId
            /\ form.pc_id # loans[loan_id].pc_id
            /\ already_out(loans, form.pc_id)
    THEN Respond("edit_loan", "conflict", loan_id)
    ELSE \E fk \in FkEnforced :
         IF fk /\ form.pc_id # loans[loan_id].pc_id
               /\ form.pc_id # NoId /\ ~pcs[form.pc_id].exists
         THEN Respond("edit_loan", "integrity_error", loan_id)
         ELSE /\ loans' = [loans EXCEPT ![loan_id] = EditedRow(loans[loan_id], form)]
              /\ items' = StockAfterEdit(items, loans[loan_id], form.item_id)
              /\ resp' = Response("edit_loan", "ok", loan_id)
              /\ UNCHANGED <<users, session, pcs, nextLoanId, reqs, items0>>

\* Variant: the owner of the loan may delete it as well.
delete_loan_owner_too(c, loan_id) ==
    IF ~logged_in(c) THEN Respond("delete_loan", "login_required", loan_id)
    ELSE IF ~loans[loan_id].exists THEN Respond("delete_loan", "not_found", loan_id)
    ELSE IF ~is_admin(c) /\ ~is_owner(c, loans[loan_id])
    THEN Respond("delete_loan", "admin_required", loan_id)
    ELSE /\ items' = StockAfterDelete(items, loans[loan_id])
         /\ loans' = [loans EXCEPT ![loan_id] = NoRow]
         /\ resp' = Response("delete_loan", "ok", loan_id)
         /\ UNCHANGED <<users, session, pcs, nextLoanId, reqs, items0>>

\* POST /loan/<loan_id>/delete
delete_loan(c, loan_id) ==
    IF ~logged_in(c) THEN Respond("delete_loan", "login_required", loan_id)
    ELSE IF ~is_admin(c) THEN Respond("delete_loan", "admin_required", loan_id)
    ELSE IF ~loans[loan_id].exists THEN Respond("delete_loan", "not_found", loan_id)
    ELSE /\ items' = StockAfterDelete(items, loans[loan_id])
         /\ loans' = [loans EXCEPT ![loan_id] = NoRow]
         /\ resp' = Response("delete_loan", "ok", loan_id)
         /\ UNCHANGED <<users, session, pcs, nextLoanId, reqs, items0>>

\* Variant: a loan due today counts as overdue.
overdue_from_due_day(loan, today_local) ==
    /\ ~loan.is_returned
    /\ loan.due_date # NoDate
    /\ loan.due_date <= today_local

\* loan.overdue as the dashboard derives it; due_date is the midnight strptime
\* gave, so due_date.date() is the day it names.
overdue(loan, today_local) ==
    /\ ~loan.is_returned
    /\ loan.due_date # NoDate
    /\ loan.due_date < today_local

\* GET /dashboard on the local calendar day today_local: the loans it marks
\* overdue and the figure it shows for them.
dashboard(c, today_local) ==
    IF ~logged_in(c) THEN Respond("dashboard", "login_required", NoId)
    ELSE LET active_loans == {l \in LoanIds : loans[l].exists /\ ~loans[l].is_returned}
             returned_loans == {l \in LoanIds : loans[l].exists /\ loans[l].is_returned}
         IN /\ resp' = [op |-> "dashboard", status |-> "ok", loan_id |-> NoId,
                        today_local |-> today_local,
                        overdue |-> {l \in active_loans \cup returned_loans :
                                        overdue(loans[l], today_local)},
                        overdue_count |-> Cardinality({l \in active_loans :
                                                         overdue(loans[l], today_local)})]
            /\ UNCHANGED <<users, session, pcs, items, loans, nextLoanId, reqs, items0>>

\* Variant: the collision query never finds a row.
existing_never(ps, ok_number, own_id) == FALSE

\* PC.query.filter(PC.ok_number == ok_number, PC.id != pc.id).first() is not
\* None; add_pc asks without the id condition (own_id = NoId).
existing(ps, ok_number, own_id) ==
    \E p \in PcIds : ps[p].exists /\ ps[p].ok_number = ok_number /\ p # own_id

\* "if not ok_number or not model_type" on the stripped fields.
PcFormInvalid(form) == strip(form.ok_number) = "" \/ strip(form.model_type) = ""

\* The columns add_pc and edit_pc write.
PcRow(form) ==
    [exists |-> TRUE, ok_number |-> strip(form.ok_number),
     model_type |-> strip(form.model_type)]

\* The id the database gives the next pc row.
NewPcId == CHOOSE p \in PcIds :
              ~pcs[p].exists /\ \A q \in PcIds : ~pcs[q].exists => p <= q

\* POST /pcs/add
add_pc(c, form) ==
    /\ \E p \in PcIds : ~pcs[p].exists
    /\ IF ~logged_in(c) THEN Respond("add_pc", "login_required", NoId)
       ELSE IF ~is_admin(c) THEN Respond("add_pc", "admin_required", NoId)
       ELSE IF PcFormInvalid(form) THEN Respond("add_pc", "invalid", NoId)
       ELSE IF existing(pcs, strip(form.ok_number), NoId)
       THEN Respond("add_pc", "conflict", NoId)
       ELSE /\ pcs' = [pcs EXCEPT ![NewPcId] = PcRow(form)]
            /\ resp' = Response("add_pc", "ok", NewPcId)
            /\ UNCHANGED <<users, session, items, loans, nextLoanId, reqs, items0>>

\* POST /pcs/<pc_id>/edit
edit_pc(c, pc_id, form) ==
    IF ~logged_in(c) THEN Respond("edit_pc", "login_required", pc_id)
    ELSE IF ~is_admin(c) THEN Respond("edit_pc", "admin_required", pc_id)
    ELSE IF ~pcs[pc_id].exists THEN Respond("edit_pc", "not_found", pc_id)
    ELSE IF PcFormInvalid(form) THEN Respond("edit_pc", "invalid", pc_id)
    ELSE IF existing(pcs, strip(form.ok_number), pc_id)
    THEN Respond("edit_pc", "conflict", pc_id)
    ELSE /\ pcs' = [pcs EXCEPT ![pc_id] = PcRow(form)]
         /\ resp' = Response("edit_pc", "ok", pc_id)
         /\ UNCHANGED <<users, session, items, loans, nextLoanId, reqs, items0>>

\* The loan rows after db.session.delete(pc): the relationship PC.loans (the
\* backref of Loan.pc) has no delete cascade, so the flush sets pc_id to NULL
\* on every loan of the PC before it deletes the pc row.
LoansWithoutPc(ls, pc_id) ==
    [l \in DOMAIN ls |->
        IF ls[l].exists /\ ls[l].pc_id = pc_id
        THEN [ls[l] EXCEPT !.pc_id = NoId] ELSE ls[l]]

\* POST /pcs/<pc_id>/delete
delete_pc(c, pc_id) ==
    IF ~logged_in(c) THEN Respond("delete_pc", "login_required", pc_id)
    ELSE IF ~is_admin(c) THEN Respond("delete_pc", "admin_required", pc_id)
    ELSE IF ~pcs[pc_id].exists THEN Respond("delete_pc", "not_found", pc_id)
    ELSE /\ pcs' = [pcs EXCEPT ![pc_id] = NoRow]
         /\ loans' = LoansWithoutPc(loans, pc_id)
         /\ resp' = Response("delete_pc", "ok", pc_id)
         /\ UNCHANGED <<users, session, items, nextLoanId, reqs, items0>>

\* Whether lower() of the database folds ASCII letters only: SQLite's built-in
\* lower() does, PostgreSQL's follows the locale of the database.
LowerAsciiOnly == BOOLEAN

\* func.lower(s) as the database computes it.
lower(s, ascii_only) ==
    CASE s \in {"Ann", "ANN", "ann"} -> "ann"
      [] s \in {"Åse", "åse"} -> IF ascii_only THEN s ELSE "åse"
      [] OTHER -> s

\* .order_by(Loan.checkout_date.desc()).first(): the rows the query may give,
\* those no other matching row follows in checkout_date.
last_loans(ls, matches) ==
    {l \in matches : \A m \in matches : ls[m].checkout_date <= ls[l].checkout_date}

\* GET /api/borrower/last?name=...
api_borrower_last(c, name_arg) ==
    LET name == strip(name_arg)
        Answer(status, loan_id, data) ==
            /\ resp' = [op |-> "api_borrower_last", status |-> status,
                        loan_id |-> loan_id, name |-> name, data |-> data]
            /\ UNCHANGED <<users, session, pcs, items, loans, nextLoanId, reqs, items0>>
    IN IF ~logged_in(c) THEN Answer("login_required", NoId, <<>>)
       ELSE IF name = "" THEN Answer("missing_name", NoId, <<>>)
       ELSE \E ascii_only \in LowerAsciiOnly :
            LET matches == {l \in LoanIds :
                               /\ loans[l].exists
                               /\ lower(loans[l].borrower_name, ascii_only)
                                     = lower(name, ascii_only)}
            IN IF matches = {} THEN Answer("not_found", NoId, <<>>)
               ELSE \E l \in last_loans(loans, matches) :
                       Answer("ok", l, [last_item |-> loans[l].item,
                                        pc_id |-> loans[l].pc_id])

\* POST / with the username and the password of user u: the session cookie
\* takes the user's id and the is_admin flag the row has at this moment.
login(c, u) ==
    IF ~users[u].exists THEN Respond("login", "invalid", u)
    ELSE /\ session' = [session EXCEPT ![c] =
                           [user_id |-> u, is_admin |-> users[u].is_admin]]
         /\ resp' = Response("login", "ok", u)
         /\ UNCHANGED <<users, pcs, items, loans, nextLoanId, reqs, items0>>

\* GET /logout
logout(c) ==
    IF ~logged_in(c) THEN Respond("logout", "login_required", NoId)
    ELSE /\ session' = [session EXCEPT ![c] = NoSession]
         /\ resp' = Response("logout", "ok", NoId)
         /\ UNCHANGED <<users, pcs, items, loans, nextLoanId, reqs, items0>>

\* Variant: toggle_admin without the check against the acting user.
toggle_admin_self_too(c, user_id) ==
    IF ~logged_in(c) THEN Respond("toggle_admin", "login_required", user_id)
    ELSE IF ~is_admin(c) THEN Respond("toggle_admin", "admin_required", user_id)
    ELSE IF ~users[user_id].exists THEN Respond("toggle_admin", "not_found", user_id)
    ELSE /\ users' = [users EXCEPT ![user_id].is_admin = ~@]
         /\ resp' = Response("toggle_admin", "ok", user_id)
         /\ UNCHANGED <<session, pcs, items, loans, nextLoanId, reqs, items0>>

\* POST /admin/user/<user_id>/toggle-admin
toggle_admin(c, user_id) ==
    IF ~logged_in(c) THEN Respond("toggle_admin", "login_required", user_id)
    ELSE IF ~is_admin(c) THEN Respond("toggle_admin", "admin_required", user_id)
    ELSE IF ~users[user_id].exists THEN Respond("toggle_admin", "not_found", user_id)
    ELSE IF user_id = session[c].user_id THEN Respond("toggle_admin", "self", user_id)
    ELSE /\ users' = [users EXCEPT ![user_id].is_admin = ~@]
         /\ resp' = Response("toggle_admin", "ok", user_id)
         /\ UNCHANGED <<session, pcs, items, loans, nextLoanId, reqs, items0>>

\* user.loans: the loans whose user_id is the user's id.
user_loans(ls, user_id) == {l \in LoanIds : ls[l].exists /\ ls[l].user_id = user_id}

\* POST /admin/user/<user_id>/delete
delete_user(c, user_id) ==
    IF ~logged_in(c) THEN Respond("delete_user", "login_required", user_id)
    ELSE IF ~is_admin(c) THEN Respond("delete_user", "admin_required", user_id)
    ELSE IF ~users[user_id].exists THEN Respond("delete_user", "not_found", user_id)
    ELSE IF user_id = session[c].user_id THEN Respond("delete_user", "self", user_id)
    ELSE IF user_loans(loans, user_id) # {} THEN Respond("delete_user", "has_loans", user_id)
    ELSE /\ users' = [users EXCEPT ![user_id] = NoRow]
         /\ resp' = Response("delete_user", "ok", user_id)
         /\ UNCHANGED <<session, pcs, items, loans, nextLoanId, reqs, items0>>

\* --------------------------------- the handlers, one SQL round trip a step
\*
\* A worker thread serves a request with its own SQLAlchemy session: a SELECT
\* reads what is committed at that moment and keeps the row in the session's
\* identity map, attribute assignments stay in the session, and commit()
\* writes the changed columns of the changed rows in one transaction.

NoForm == [borrower_name |-> "", other |-> "", item |-> "", due_date_str |-> "",
           pc_id |-> NoId, item_id |-> NoId]

\* A worker that serves nothing.
Idle == [op |-> "none", phase |-> "idle", sess |-> NoSession, loan_id |-> NoId,
         form |-> NoForm, now |-> NoDate, loan |-> NoRow, item_rows |-> <<>>,
         lock |-> FALSE, status |-> "none"]

AllIdle == \A w \in Workers : reqs[w].phase = "idle"
InFlight(w) == reqs[w].phase \notin {"idle", "done"}

\* Another worker's open transaction holds the row lock of loan `loan_id`
\* (it has flushed an UPDATE of that row and not yet committed).
LockedByOther(w, loan_id) ==
    \E o \in Workers \ {w} : reqs[o].lock /\ reqs[o].loan_id = loan_id

\* The request ends: the session is removed, the transaction (if open) is over.
Finish(w, status) ==
    reqs' = [reqs EXCEPT ![w].phase = "done", ![w].status = status, ![w].lock = FALSE]

\* History only: the stock as stored when the first concurrent request began.
Mark == items0' = IF AllIdle THEN items ELSE items0

DbUnchanged == UNCHANGED <<users, session, pcs, items, loans, nextLoanId, resp>>

\* UPDATE item SET stock_available = ... for the rows of the identity map whose
\* attribute differs from the value loaded; other rows keep what is stored.
flush_items(stored, loaded, changed) ==
    [i \in DOMAIN stored |->
        IF i \in DOMAIN changed /\ changed[i] # loaded[i] THEN changed[i] ELSE stored[i]]

\* UPDATE loan SET <the columns whose value differs from the value loaded>.
flush_loan(stored, loaded, changed) ==
    [f \in DOMAIN stored |-> IF changed[f] # loaded[f] THEN changed[f] ELSE stored[f]]

\* Item.query.get(item_id): the identity map's row, else a SELECT of the row.
load_item(item_rows, item_id) ==
    IF item_id = NoId \/ item_id \in DOMAIN item_rows \/ item_id \notin DOMAIN items
    THEN item_rows
    ELSE [i \in DOMAIN item_rows \cup {item_id} |->
            IF i = item_id THEN items[i] ELSE item_rows[i]]

\* new_loan up to the form checks: the GET-independent queries that load every
\* PC and every Item, then the parsing and validation of the form.
begin_new_loan(w, c, form, now) ==
    /\ reqs[w].phase = "idle"
    /\ nextLoanId + Cardinality({o \in Workers : InFlight(o) /\ reqs[o].op = "new_loan"})
          <= MaxLoans
    /\ LET r == [Idle EXCEPT !.op = "new_loan", !.sess = session[c], !.form = form,
                             !.now = now, !.item_rows = items]
       IN reqs' = [reqs EXCEPT ![w] =
            IF ~logged_in(c) THEN [r EXCEPT !.phase = "done", !.status = "login_required"]
            ELSE IF FormInvalid(form) THEN [r EXCEPT !.phase = "done", !.status = "invalid"]
            ELSE [r EXCEPT !.phase = IF form.pc_id # NoId THEN "check" ELSE "commit"]]
    /\ Mark
    /\ DbUnchanged

\* new_loan: "Block new loan if PC already loaned out" (the SELECT on loan).
check_new_loan(w) ==
    /\ reqs[w].op = "new_loan" /\ reqs[w].phase = "check"
    /\ IF already_out(loans, reqs[w].form.pc_id)
       THEN Finish(w, "conflict")
       ELSE reqs' = [reqs EXCEPT ![w].phase = "commit"]
    /\ UNCHANGED items0
    /\ DbUnchanged

\* Variant: the loan row is committed on its own; the request dies before the
\* stock UPDATE is committed.
commit_new_loan_loan_only(w) ==
    /\ reqs[w].op = "new_loan" /\ reqs[w].phase = "commit"
    /\ loans' = [loans EXCEPT ![nextLoanId] =
                    NewLoanRow(reqs[w].form, reqs[w].sess, reqs[w].now)]
    /\ nextLoanId' = nextLoanId + 1
    /\ Finish(w, "aborted")
    /\ UNCHANGED <<users, session, pcs, items, resp, items0>>

\* new_loan: adjust_item_stock on the loaded rows, db.session.add, commit.
commit_new_loan(w) ==
    /\ reqs[w].op = "new_loan" /\ reqs[w].phase = "commit"
    /\ LET r == reqs[w]
       IN /\ items' = flush_items(items, r.item_rows,
                                  adjust_item_stock(r.item_rows, r.form.item_id, -1))
          /\ loans' = [loans EXCEPT ![nextLoanId] = NewLoanRow(r.form, r.sess, r.now)]
          /\ nextLoanId' = nextLoanId + 1
    /\ Finish(w, "ok")
    /\ UNCHANGED <<users, session, pcs, resp, items0>>

\* return_loan up to the "already returned" check: the SELECT of the loan.
begin_return_loan(w, c, loan_id, now) ==
    /\ reqs[w].phase = "idle"
    /\ LET r == [Idle EXCEPT !.op = "return_loan", !.sess = session[c],
                             !.loan_id = loan_id, !.now = now, !.loan = loans[loan_id]]
       IN reqs' = [reqs EXCEPT ![w] =
            IF ~logged_in(c) THEN [r EXCEPT !.phase = "done", !.status = "login_required"]
            ELSE IF ~r.loan.exists THEN [r EXCEPT !.phase = "done", !.status = "not_found"]
            ELSE IF ~is_admin(c) /\ ~is_owner(c, r.loan)
            THEN [r EXCEPT !.phase = "done", !.status = "forbidden"]
            ELSE IF r.loan.is_returned
            THEN [r EXCEPT !.phase = "done", !.status = "already_returned"]
            ELSE [r EXCEPT !.phase = IF r.loan.item_id # NoId THEN "flush" ELSE "commit"]]
    /\ Mark
    /\ DbUnchanged

\* return_loan: Item.query.get inside adjust_item_stock.  The session holds the
\* changed loan, so the query first flushes UPDATE loan (which waits for, then
\* takes, the row's lock and fails if the row is gone) and then SELECTs the item.
flush_return_loan(w) ==
    /\ reqs[w].op = "return_loan" /\ reqs[w].phase = "flush"
    /\ ~LockedByOther(w, reqs[w].loan_id)
    /\ IF ~loans[reqs[w].loan_id].exists
       THEN Finish(w, "stale_data")
       ELSE reqs' = [reqs EXCEPT ![w].phase = "commit", ![w].lock = TRUE,
                                 ![w].item_rows = load_item(@, reqs[w].loan.item_id)]
    /\ UNCHANGED items0
    /\ DbUnchanged

\* return_loan: db.session.commit().
commit_return_loan(w) ==
    /\ reqs[w].op = "return_loan" /\ reqs[w].phase = "commit"
    /\ ~LockedByOther(w, reqs[w].loan_id)
    /\ LET r == reqs[w]
       IN IF ~loans[r.loan_id].exists
          THEN Finish(w, "stale_data") /\ UNCHANGED <<items, loans>>
          ELSE /\ loans' = [loans EXCEPT ![r.loan_id] =
                              flush_loan(@, r.loan, ReturnedRow(r.loan, r.now))]
               /\ items' = flush_items(items, r.item_rows,
                                       adjust_item_stock(r.item_rows, r.loan.item_id, 1))
               /\ Finish(w, "ok")
    /\ UNCHANGED <<users, session, pcs, nextLoanId, resp, items0>>

\* edit_loan up to the form checks: the SELECT of the loan, of every PC and of
\* every Item, then the parsing and validation of the form.
begin_edit_loan(w, c, loan_id, form) ==
    /\ reqs[w].phase = "idle"
    /\ LET r == [Idle EXCEPT !.op = "edit_loan", !.sess = session[c], !.form = form,
                             !.loan_id = loan_id, !.loan = loans[loan_id],
                             !.item_rows = items]
       IN reqs' = [reqs EXCEPT ![w] =
            IF ~logged_in(c) THEN [r EXCEPT !.phase = "done", !.status = "login_required"]
            ELSE IF ~r.loan.exists THEN [r EXCEPT !.phase = "done", !.status = "not_found"]
            ELSE IF ~is_admin(c) /\ ~is_owner(c, r.loan)
            THEN [r EXCEPT !.phase = "done", !.status = "forbidden"]
            ELSE IF FormInvalid(form) THEN [r EXCEPT !.phase = "done", !.status = "invalid"]
            ELSE [r EXCEPT !.phase =
                    IF form.pc_id # NoId /\ form.pc_id # r.loan.pc_id
                    THEN "check" ELSE "commit"]]
    /\ Mark
    /\ DbUnchanged

\* edit_loan: the exclusivity SELECT when the PC changes.
check_edit_loan(w) ==
    /\ reqs[w].op = "edit_loan" /\ reqs[w].phase = "check"
    /\ IF already_out(loans, reqs[w].form.pc_id)
       THEN Finish(w, "conflict")
       ELSE reqs' = [reqs EXCEPT ![w].phase = "commit"]
    /\ UNCHANGED items0
    /\ DbUnchanged

\* edit_loan: the field updates, the stock adjustment, db.session.commit().
commit_edit_loan(w) ==
    /\ reqs[w].op = "edit_loan" /\ reqs[w].phase = "commit"
    /\ ~LockedByOther(w, reqs[w].loan_id)
    /\ LET r == reqs[w]
           edited == EditedRow(r.loan, r.form)
       IN IF edited # r.loan /\ ~loans[r.loan_id].exists
          THEN Finish(w, "stale_data") /\ UNCHANGED <<items, loans>>
          ELSE /\ loans' = IF edited = r.loan THEN loans
                           ELSE [loans EXCEPT ![r.loan_id] = flush_loan(@, r.loan, edited)]
               /\ items' = flush_items(items, r.item_rows,
                                       StockAfterEdit(r.item_rows, r.loan, r.form.item_id))
               /\ Finish(w, "ok")
    /\ UNCHANGED <<users, session, pcs, nextLoanId, resp, items0>>

\* delete_loan: the admin gate and the SELECT of the loan.
begin_delete_loan(w, c, loan_id) ==
    /\ reqs[w].phase = "idle"
    /\ LET r == [Idle EXCEPT !.op = "delete_loan", !.sess = session[c],
                             !.loan_id = loan_id, !.loan = loans[loan_id]]
       IN reqs' = [reqs EXCEPT ![w] =
            IF ~logged_in(c) THEN [r EXCEPT !.phase = "done", !.status = "login_required"]
            ELSE IF ~is_admin(c) THEN [r EXCEPT !.phase = "done", !.status = "admin_required"]
            ELSE IF ~r.loan.exists THEN [r EXCEPT !.phase = "done", !.status = "not_found"]
            ELSE [r EXCEPT !.phase =
                    IF ~r.loan.is_returned /\ r.loan.item_id # NoId
                    THEN "read" ELSE "commit"]]
    /\ Mark
    /\ DbUnchanged

\* delete_loan: Item.query.get inside adjust_item_stock (nothing to flush yet).
read_delete_loan(w) ==
    /\ reqs[w].op = "delete_loan" /\ reqs[w].phase = "read"
    /\ reqs' = [reqs EXCEPT ![w].phase = "commit",
                            ![w].item_rows = load_item(@, reqs[w].loan.item_id)]
    /\ UNCHANGED items0
    /\ DbUnchanged

\* delete_loan: db.session.delete(loan), db.session.commit().  A DELETE that
\* matches no row only warns, so the stock UPDATE of the same flush persists.
commit_delete_loan(w) ==
    /\ reqs[w].op = "delete_loan" /\ reqs[w].phase = "commit"
    /\ ~LockedByOther(w, reqs[w].loan_id)
    /\ LET r == reqs[w]
       IN /\ items' = flush_items(items, r.item_rows, StockAfterDelete(r.item_rows, r.loan))
          /\ loans' = [loans EXCEPT ![r.loan_id] = NoRow]
    /\ Finish(w, "ok")
    /\ UNCHANGED <<users, session, pcs, nextLoanId, resp, items0>>

\* The request dies between two steps (the worker crashes, the connection is
\* lost, an exception escapes): the session is discarded, nothing is committed.
abort(w) ==
    /\ InFlight(w)
    /\ Finish(w, "aborted")
    /\ UNCHANGED items0
    /\ DbUnchanged

\* The worker thread is done with its request and takes the next one.
next_request(w) ==
    /\ reqs[w].phase = "done"
    /\ reqs' = [reqs EXCEPT ![w] = Idle]
    /\ UNCHANGED items0
    /\ DbUnchanged

\* ------------------------------------------------------------------ inputs

\* The form fields of /loan/new and /loan/<id>/edit.
Forms(names, others, texts, dues, pcIds, itemIds) ==
    [borrower_name : names, other : others, item : texts,
     due_date_str : dues, pc_id : pcIds, item_id : itemIds]

\* Forms that differ in the inventory item they select.
StockForms == Forms({"Ann"}, {"-"}, {"PC"}, {""}, {NoId}, {NoId} \cup ItemIds)
\* Forms that differ in the PC they select.
PcForms == Forms({"Ann"}, {"-"}, {"PC"}, {""}, {NoId} \cup PcIds, {NoId, 1})
\* Forms that differ in the borrower, the due date and the item.
EditForms == Forms({"Ann", "Bob"}, {"-"}, {"PC"}, {"", "0001-01-01"}, {NoId}, {NoId, 1})
\* Forms of the requests that may die half-way.
CrashForms == Forms({"Ann"}, {"-"}, {"PC"}, {""}, {NoId, 1}, {NoId} \cup ItemIds)
\* Forms of the requests that race.
RaceForms == Forms({"Ann"}, {"-"}, {"PC"}, {""}, {NoId, 1}, {NoId, 1})

\* -------------------------------------------------------------------- Init

\* The store after db.create_all() and the seeding of the default admin, with
\* a second (non-admin) account, the PCs registered and the inventory items
\* provisioned; both accounts are logged in.  No loan exists yet.
Init ==
    /\ users = [u \in UserIds |-> [exists |-> TRUE, is_admin |-> (u = 1)]]
    /\ session = [c \in Clients |->
                    IF c = "admin" THEN [user_id |-> 1, is_admin |-> TRUE]
                    ELSE [user_id |-> 2, is_admin |-> FALSE]]
    /\ pcs = [p \in PcIds |->
                [exists |-> TRUE,
                 ok_number |-> IF p = 1 THEN "OK1" ELSE "OK2",
                 model_type |-> "T14"]]
    /\ items \in [ItemIds -> {it \in [stock_total : 0..MaxTotal,
                                      stock_available : 0..MaxTotal] :
                                 it.stock_available <= it.stock_total}]
    /\ loans = [l \in LoanIds |-> NoRow]
    /\ nextLoanId = 1
    /\ resp = Response("none", "none", NoId)
    /\ reqs = [w \in Workers |-> Idle]
    /\ items0 = [i \in ItemIds |-> [stock_total |-> 0, stock_available |-> 0]]

\* Item 2 is provisioned with no stock (specifications that lend item 1 only).
InitOneItem == Init /\ items[2].stock_total = 0

\* Item 1 is the only item in stock and none of its units is lent yet.
InitStocked ==
    /\ InitOneItem
    /\ items[1].stock_total > 0
    /\ items[1].stock_available = items[1].stock_total

\* No unit of any item is lent yet: available = total, with no loan.
InitConserving ==
    /\ Init
    /\ \A i \in ItemIds : items[i].stock_available = items[i].stock_total

\* Every item is provisioned with enough units for every loan, none lent yet.
InitFresh ==
    /\ Init
    /\ \A i \in ItemIds : /\ items[i].stock_total >= MaxLoans
                          /\ items[i].stock_available = items[i].stock_total

\* ------------------------------------------------ sequential specifications

\* The stock ledger: requests of the admin, one at a time.
NewLoan == \E form \in StockForms : new_loan("admin", form, 1)
ReturnLoan == \E l \in LoanIds, now \in Times : return_loan("admin", l, now)
EditLoan == \E l \in LoanIds, form \in StockForms : edit_loan("admin", l, form)
DeleteLoan == \E l \in LoanIds : delete_loan("admin", l)

Next == NewLoan \/ ReturnLoan \/ EditLoan \/ DeleteLoan

Spec == Init /\ [][Next]_vars

\* The stock ledger started with every unit in stock.
SpecLedger == InitConserving /\ [][Next]_vars

\* The PC reservations: requests of the admin, one at a time.
PcNewLoan == \E form \in PcForms : new_loan("admin", form, 1)
PcReturnLoan == \E l \in LoanIds : return_loan("admin", l, 1)
PcEditLoan == \E l \in LoanIds, form \in PcForms : edit_loan("admin", l, form)
PcDeleteLoan == \E l \in LoanIds : delete_loan("admin", l)

NextPc == PcNewLoan \/ PcReturnLoan \/ PcEditLoan \/ PcDeleteLoan

SpecPc == InitOneItem /\ [][NextPc]_vars

\* Edits of every form field: requests of the admin, one at a time.
EdNewLoan == \E form \in EditForms : new_loan("admin", form, 1)
EdReturnLoan == \E l \in LoanIds : return_loan("admin", l, 2)
EdEditLoan == \E l \in LoanIds, form \in EditForms : edit_loan("admin", l, form)
EdDeleteLoan == \E l \in LoanIds : delete_loan("admin", l)

NextEdit == EdNewLoan \/ EdReturnLoan \/ EdEditLoan \/ EdDeleteLoan

SpecEdit == InitOneItem /\ [][NextEdit]_vars

\* Access: requests of the admin and of the non-admin account, one at a time.
AuthForms == Forms({"Ann"}, {"-"}, {"PC"}, {""}, {NoId}, {NoId, 1})

AuNewLoan == \E c \in Clients, form \in AuthForms : new_loan(c, form, 1)
AuReturnLoan == \E c \in Clients, l \in LoanIds : return_loan(c, l, 2)
AuEditLoan == \E c \in Clients, l \in LoanIds, form \in AuthForms : edit_loan(c, l, form)
AuDeleteLoan == \E c \in Clients, l \in LoanIds : delete_loan(c, l)

NextAuth == AuNewLoan \/ AuReturnLoan \/ AuEditLoan \/ AuDeleteLoan

SpecAuth == InitOneItem /\ [][NextAuth]_vars

\* Form validation: well-formed, blank and malformed fields, one request at a
\* time.
FieldForms == Forms({"Ann", "", " "}, {"-"}, {"PC", ""},
                    {"", "0001-01-02", "02.01.0001"}, {NoId}, {1})

FmNewLoan == \E form \in FieldForms : new_loan("admin", form, 1)
FmReturnLoan == \E l \in LoanIds : return_loan("admin", l, 2)
FmEditLoan == \E l \in LoanIds, form \in FieldForms : edit_loan("admin", l, form)

NextForm == FmNewLoan \/ FmReturnLoan \/ FmEditLoan

SpecForm == InitStocked /\ [][NextForm]_vars

\* The PC registry next to the loans of PCs: requests of the admin, one at a
\* time.
PcFields == [ok_number : {"OK1", "OK3", " OK3 ", ""}, model_type : {"T14", ""}]
RegistryForms == Forms({"Ann"}, {"-"}, {"PC"}, {""}, {NoId} \cup PcIds, {NoId})

RgNewLoan == \E form \in RegistryForms : new_loan("admin", form, 1)
RgReturnLoan == \E l \in LoanIds : return_loan("admin", l, 2)
RgAddPc == \E form \in PcFields : add_pc("admin", form)
RgEditPc == \E p \in PcIds, form \in PcFields : edit_pc("admin", p, form)
RgDeletePc == \E p \in PcIds : delete_pc("admin", p)

NextRegistry == RgNewLoan \/ RgReturnLoan \/ RgAddPc \/ RgEditPc \/ RgDeletePc

SpecRegistry == InitStocked /\ [][NextRegistry]_vars

\* The dashboard next to loans with due dates: requests of the admin, one at a
\* time, on the calendar days Days.
Days == {1, 2, 3}
DueForms == Forms({"Ann"}, {"-"}, {"PC"}, {"", "0001-01-01", "0001-01-02"}, {NoId}, {NoId})

DbNewLoan == \E form \in DueForms : new_loan("admin", form, 1)
DbReturnLoan == \E l \in LoanIds : return_loan("admin", l, 2)
DbEditLoan == \E l \in LoanIds, form \in DueForms : edit_loan("admin", l, form)
Dashboard == \E today_local \in Days : dashboard("admin", today_local)

NextDash == DbNewLoan \/ DbReturnLoan \/ DbEditLoan \/ Dashboard

SpecDash == InitStocked /\ [][NextDash]_vars

\* The accounts next to the loans they register: requests of both browsers,
\* one at a time.
AccountForms == Forms({"Ann"}, {"-"}, {"PC"}, {""}, {NoId}, {NoId})

AcLogin == \E c \in Clients, u \in UserIds : login(c, u)
AcLogout == \E c \in Clients : logout(c)
AcToggleAdmin == \E c \in Clients, u \in UserIds : toggle_admin(c, u)
AcDeleteUser == \E c \in Clients, u \in UserIds : delete_user(c, u)
AcNewLoan == \E c \in Clients, form \in AccountForms : new_loan(c, form, 1)
AcDeleteLoan == \E c \in Clients, l \in LoanIds : delete_loan(c, l)

NextAccounts ==
    AcLogin \/ AcLogout \/ AcToggleAdmin \/ AcDeleteUser \/ AcNewLoan \/ AcDeleteLoan

SpecAccounts == InitStocked /\ [][NextAccounts]_vars

\* The borrower lookup next to loans of borrowers whose names differ in letter
\* case: requests of the admin, one at a time.
BorrowerForms == Forms({"Ann", "ANN", "Åse"}, {"-"}, {"PC"}, {""}, {NoId, 1}, {NoId})
LookupNames == {"ann", " Ann ", "åse", "Eve", " "}

LkNewLoan == \E form \in BorrowerForms, now \in Times : new_loan("admin", form, now)
LkDeleteLoan == \E l \in LoanIds : delete_loan("admin", l)
LkBorrowerLast == \E name \in LookupNames : api_borrower_last("admin", name)

NextLookup == LkNewLoan \/ LkDeleteLoan \/ LkBorrowerLast

SpecLookup == InitStocked /\ [][NextLookup]_vars

\* ------------------------------------------------- concurrent specification

\* Loans are first registered one request at a time; then each worker thread
\* serves one request, and the two requests interleave at their SQL round trips.
Populate == AllIdle /\ \E form \in RaceForms : new_loan("admin", form, 1)
BeginNewLoan == \E w \in Workers, form \in RaceForms : begin_new_loan(w, "admin", form, 1)
CheckNewLoan == \E w \in Workers : check_new_loan(w)
CommitNewLoan == \E w \in Workers : commit_new_loan(w)
BeginReturnLoan == \E w \in Workers, l \in LoanIds : begin_return_loan(w, "admin", l, 2)
FlushReturnLoan == \E w \in Workers : flush_return_loan(w)
CommitReturnLoan == \E w \in Workers : commit_return_loan(w)
BeginEditLoan == \E w \in Workers, l \in LoanIds, form \in RaceForms :
                     begin_edit_loan(w, "admin", l, form)
CheckEditLoan == \E w \in Workers : check_edit_loan(w)
CommitEditLoan == \E w \in Workers : commit_edit_loan(w)
BeginDeleteLoan == \E w \in Workers, l \in LoanIds : begin_delete_loan(w, "admin", l)
ReadDeleteLoan == \E w \in Workers : read_delete_loan(w)
CommitDeleteLoan == \E w \in Workers : commit_delete_loan(w)
Abort == \E w \in Workers : abort(w)

NextConc ==
    \/ Populate
    \/ BeginNewLoan \/ CheckNewLoan \/ CommitNewLoan
    \/ BeginReturnLoan \/ FlushReturnLoan \/ CommitReturnLoan
    \/ BeginEditLoan \/ CheckEditLoan \/ CommitEditLoan
    \/ BeginDeleteLoan \/ ReadDeleteLoan \/ CommitDeleteLoan
    \/ Abort

SpecConc == InitOneItem /\ [][NextConc]_vars

\* The same races, started with every unit of item 1 in stock.
SpecRace == InitStocked /\ [][NextConc]_vars

\* ------------------------------------- one request at a time, but mortal

\* One worker thread serves request after request, a SQL round trip a step,
\* and a request may die between any two of its steps.
NextCrash ==
    \/ \E form \in CrashForms : begin_new_loan("w1", "admin", form, 1)
    \/ check_new_loan("w1")
    \/ commit_new_loan("w1")
    \/ \E l \in LoanIds : begin_return_loan("w1", "admin", l, 2)
    \/ flush_return_loan("w1")
    \/ commit_return_loan("w1")
    \/ \E l \in LoanIds, form \in CrashForms : begin_edit_loan("w1", "admin", l, form)
    \/ check_edit_loan("w1")
    \/ commit_edit_loan("w1")
    \/ \E l \in LoanIds : begin_delete_loan("w1", "admin", l)
    \/ read_delete_loan("w1")
    \/ commit_delete_loan("w1")
    \/ abort("w1")
    \/ next_request("w1")

SpecCrash == InitFresh /\ [][NextCrash]_vars

\* ------------------------------------------------------------ properties

ActiveLoans == {l \in LoanIds : loans[l].exists /\ ~loans[l].is_returned}
\* The Active loans that reference PC p / inventory item i.
ActiveOnPc(p) == {l \in ActiveLoans : loans[l].pc_id = p}
ActiveOnItem(i) == {l \in ActiveLoans : loans[l].item_id = i}

Available(i) == items[i].stock_available
Total(i) == items[i].stock_total

\* C1: for every StockItem, in every state reachable by createLoan, editLoan,
\* returnLoan and deleteLoan from a state with 0 <= available <= total,
\* 0 <= available <= total.
StockWithinBounds ==
    \A i \in ItemIds : 0 <= Available(i) /\ Available(i) <= Total(i)

\* C1 witness: more Active loans reference an item than it has units, so a
\* decrement was cut off at 0.
StockClampedAtZero ==
    \E i \in ItemIds : /\ Total(i) > 0
                       /\ Cardinality(ActiveOnItem(i)) > Total(i)
                       /\ Available(i) = 0

\* C2: when two createLoan (or editLoan) requests for the same free PC run
\* concurrently, at no point do two Active loans reference the same PCAsset, and
\* of two createLoan requests for the same PC at most one succeeds.
RacingReservationsExclude ==
    /\ \A p \in PcIds : Cardinality(ActiveOnPc(p)) <= 1
    /\ \A w1, w2 \in Workers :
          (/\ w1 # w2
           /\ reqs[w1].op = "new_loan" /\ reqs[w2].op = "new_loan"
           /\ reqs[w1].form.pc_id # NoId
           /\ reqs[w1].form.pc_id = reqs[w2].form.pc_id
           /\ reqs[w1].phase = "done" /\ reqs[w2].phase = "done")
          => ~(reqs[w1].status = "ok" /\ reqs[w2].status = "ok")

\* C3: with requests served one at a time, after any sequence of createLoan,
\* editLoan, returnLoan and deleteLoan every PCAsset is referenced by at most
\* one Active loan.
OneActiveLoanPerPc ==
    \A p \in PcIds : \A l1, l2 \in ActiveOnPc(p) : l1 = l2

\* C3 witness: a request for a PC that an Active loan holds was turned down.
PcRequestTurnedDown ==
    /\ resp.status = "conflict"
    /\ \E p \in PcIds : ActiveOnPc(p) # {}
    /\ \E l \in LoanIds : loans[l].exists /\ loans[l].is_returned /\ loans[l].pc_id # NoId

\* The stock adjustments a finished request made, in the order it made them.
Adjustments(r) ==
    IF r.phase # "done" \/ r.status # "ok" THEN <<>>
    ELSE IF r.op = "new_loan"
    THEN (IF r.form.item_id # NoId THEN << <<r.form.item_id, -1>> >> ELSE <<>>)
    ELSE IF r.op = "return_loan"
    THEN (IF r.loan.item_id # NoId THEN << <<r.loan.item_id, 1>> >> ELSE <<>>)
    ELSE IF r.op = "edit_loan"
    THEN (IF ~r.loan.is_returned /\ r.loan.item_id # r.form.item_id
          THEN (IF r.loan.item_id # NoId THEN << <<r.loan.item_id, 1>> >> ELSE <<>>)
               \o (IF r.form.item_id # NoId THEN << <<r.form.item_id, -1>> >> ELSE <<>>)
          ELSE <<>>)
    ELSE IF r.op = "delete_loan"
    THEN (IF ~r.loan.is_returned /\ r.loan.item_id # NoId
          THEN << <<r.loan.item_id, 1>> >> ELSE <<>>)
    ELSE <<>>

\* The adjustments `adj` applied one after another to the item rows `its`.
RECURSIVE ApplyAll(_, _)
ApplyAll(its, adj) ==
    IF adj = <<>> THEN its
    ELSE ApplyAll(adjust_item_stock(its, Head(adj)[1], Head(adj)[2]), Tail(adj))

RaceOver == ~AllIdle /\ \A w \in Workers : ~InFlight(w)

\* C4: stock adjustments on the same StockItem are serialized: once the
\* concurrent requests have finished, available is what applying their
\* adjustments one after another, in some order, gives (none is lost), and it
\* is never below 0 or above total.
StockAdjustmentsSerialized ==
    /\ \A i \in ItemIds : 0 <= Available(i) /\ Available(i) <= Total(i)
    /\ RaceOver =>
         \E w1, w2 \in Workers :
            /\ w1 # w2
            /\ items = ApplyAll(ApplyAll(items0, Adjustments(reqs[w1])),
                                Adjustments(reqs[w2]))

\* C5: createLoan with a StockItem reference decreases that item's available
\* by exactly 1 and the paired returnLoan (or deleteLoan of the Active loan)
\* increases it by exactly 1, whatever available was in [0, total].
StockRoundTrip ==
    [][LET l == resp'.loan_id
       IN /\ (/\ resp'.op = "new_loan" /\ resp'.status = "ok"
              /\ ~loans[l].exists /\ loans'[l].exists
              /\ loans'[l].item_id # NoId)
             => items'[loans'[l].item_id].stock_available
                  = Available(loans'[l].item_id) - 1
          /\ (/\ resp'.op \in {"return_loan", "delete_loan"} /\ resp'.status = "ok"
              /\ l \in ActiveLoans /\ loans'[l] # loans[l]
              /\ loans[l].item_id # NoId)
             => items'[loans[l].item_id].stock_available
                  = Available(loans[l].item_id) + 1]_vars

\* C6: returnLoan on a loan that is already Returned is a reported no-op: the
\* returned flag, the return timestamp and every available count stay as the
\* first call left them.
ReturnIsIdempotent ==
    [][\A l \in LoanIds :
          (/\ loans[l].exists /\ loans[l].is_returned
           /\ resp'.op = "return_loan" /\ resp'.loan_id = l)
          => /\ resp'.status = "already_returned"
             /\ loans' = loans
             /\ items' = items]_vars

\* C6 witness: a second return was reported for a loan returned at instant 1
\* whose item is not back at its total.
ReturnReportedTwice ==
    /\ resp.op = "return_loan" /\ resp.status = "already_returned"
    /\ LET loan == loans[resp.loan_id]
       IN /\ loan.is_returned /\ loan.return_date = 1
          /\ loan.item_id # NoId
          /\ Available(loan.item_id) < Total(loan.item_id)

\* C7: once a loan's returned flag is true, no operation makes it Active again
\* (the loan stays Returned until it is deleted).
ReturnedStaysReturned ==
    [][\A l \in LoanIds :
          (loans[l].exists /\ loans[l].is_returned /\ loans'[l].exists)
          => loans'[l].is_returned]_vars

\* C7 witness: a Returned loan has been edited (borrower and due date rewritten).
ReturnedLoanEdited ==
    /\ resp.op = "edit_loan" /\ resp.status = "ok"
    /\ LET loan == loans[resp.loan_id]
       IN loan.is_returned /\ loan.borrower_name = "Bob" /\ loan.due_date # NoDate

\* C8: each operation takes effect on the store as one atomic step: in every
\* persisted state, also after a request died between two of its steps, every
\* unit that left the available count is paired with an Active loan that
\* references the item, and every such loan with a unit.
LoanPairedWithStock ==
    \A i \in ItemIds : Available(i) + Cardinality(ActiveOnItem(i)) = Total(i)

\* C8 witness: a request died after the loan it works on was registered and
\* stock was reserved for it.
RequestDiedHalfWay ==
    /\ reqs["w1"].phase = "done" /\ reqs["w1"].status = "aborted"
    /\ reqs["w1"].op \in {"return_loan", "edit_loan", "delete_loan"}
    /\ reqs["w1"].loan_id \in ActiveLoans
    /\ loans[reqs["w1"].loan_id].item_id # NoId

\* C9: editLoan on a Returned loan leaves the available count of every
\* StockItem unchanged, whatever fields it changes.
EditOfReturnedKeepsStock ==
    [][(/\ resp'.op = "edit_loan"
        /\ loans[resp'.loan_id].exists
        /\ loans[resp'.loan_id].is_returned)
       => items' = items]_vars

\* C9 witness: a Returned loan was edited and now references an item all of
\* whose units are available.
ReturnedLoanEditedOntoItem ==
    /\ resp.op = "edit_loan" /\ resp.status = "ok"
    /\ LET loan == loans[resp.loan_id]
       IN /\ loan.is_returned
          /\ loan.item_id # NoId
          /\ Available(loan.item_id) = Total(loan.item_id)
          /\ Total(loan.item_id) > 0

\* C10: deleteLoan removes the loan; if it was Active and referenced a
\* StockItem that item's available grows by 1 (clamped to total), and if it was
\* Returned no available count changes.
DeleteReleasesActiveOnly ==
    [][(/\ resp'.op = "delete_loan" /\ resp'.status = "ok"
        /\ loans[resp'.loan_id].exists)
       => LET l == resp'.loan_id
              loan == loans[l]
          IN /\ loans' = [loans EXCEPT ![l] = NoRow]
             /\ items' = IF ~loan.is_returned /\ loan.item_id # NoId
                         THEN [items EXCEPT ![loan.item_id].stock_available =
                                  Min(@ + 1, Total(loan.item_id))]
                         ELSE items]_vars

\* C10 witness: a loan was deleted while another loan still holds a unit.
LoanDeleted ==
    /\ resp.op = "delete_loan" /\ resp.status = "ok"
    /\ ~loans[resp.loan_id].exists
    /\ \E l \in ActiveLoans : loans[l].item_id # NoId

\* C11: returnLoan and editLoan invoked by an actor who is neither admin nor
\* the loan's owning user are rejected as forbidden and leave every loan and
\* every stock count unchanged; invoked by the owner or by an admin they are
\* not rejected as forbidden.
OwnerOrAdminOnly ==
    [][\A c \in Clients, l \in LoanIds :
          LET actor == session[c]
              stranger == ~actor.is_admin /\ loans[l].user_id # actor.user_id
              served == \/ return_loan(c, l, 2)
                        \/ \E form \in AuthForms : edit_loan(c, l, form)
          IN (/\ loans[l].exists
              /\ resp'.op \in {"return_loan", "edit_loan"} /\ resp'.loan_id = l
              /\ served)
             => IF stranger
                THEN resp'.status = "forbidden" /\ loans' = loans /\ items' = items
                ELSE resp'.status # "forbidden"]_vars

\* C11 witness: an edit of an Active loan registered by the admin was refused
\* as forbidden, while a loan registered by the non-admin has been returned.
StrangerTurnedAway ==
    /\ resp.op = "edit_loan" /\ resp.status = "forbidden"
    /\ resp.loan_id \in ActiveLoans
    /\ loans[resp.loan_id].user_id = 1
    /\ \E l \in LoanIds : loans[l].exists /\ loans[l].is_returned /\ loans[l].user_id = 2

\* C12: deleteLoan invoked by an actor who is not admin, the loan's owner
\* included, removes no loan and changes no stock count.
DeleteIsAdminOnly ==
    [][\A c \in Clients, l \in LoanIds :
          (~session[c].is_admin /\ delete_loan(c, l))
          => loans' = loans /\ items' = items]_vars

\* C12 witness: the non-admin owner of an Active loan that holds a unit asked
\* for its deletion and was told that admin rights are required.
OwnerDeleteRefused ==
    /\ resp.op = "delete_loan" /\ resp.status = "admin_required"
    /\ resp.loan_id \in ActiveLoans
    /\ loans[resp.loan_id].user_id = 2
    /\ loans[resp.loan_id].item_id # NoId

BlankItemTextFilled ==
    [][\A form \in FieldForms :
          (/\ form.item_id # NoId /\ form.item = ""
           /\ form.borrower_name = "Ann" /\ form.due_date_str = ""
           /\ new_loan("admin", form, 1))
          => /\ resp'.status = "ok"
             /\ loans'[nextLoanId].exists
             /\ loans'[nextLoanId].item = ItemName(form.item_id)]_vars

\* C15: deletePC on a PCAsset that some loan references, Active or Returned,
\* fails with a conflict and leaves the PCAsset and every loan's PC reference
\* unchanged.
ReferencedPcKept ==
    [][\A p \in PcIds :
          (/\ pcs[p].exists
           /\ \E l \in LoanIds : loans[l].exists /\ loans[l].pc_id = p
           /\ delete_pc("admin", p))
          => resp'.status = "conflict" /\ pcs' = pcs /\ loans' = loans]_vars

\* The PCs that hold the tag `ok_number`, the PC `own_id` aside.
HoldersOf(ok_number, own_id) ==
    {p \in PcIds \ {own_id} : pcs[p].exists /\ pcs[p].ok_number = ok_number}

\* C18: PC tags are unique in every reachable state; createPC with a tag some
\* PCAsset holds and updatePC to a tag another PCAsset holds fail with a
\* conflict and change nothing; createPC / updatePC with an empty tag or model
\* fail as invalid.
PcTagsStayUnique ==
    /\ [](\A p \in PcIds : pcs[p].exists => HoldersOf(pcs[p].ok_number, p) = {})
    /\ [][\A form \in PcFields :
             LET empty == form.ok_number = "" \/ form.model_type = ""
                 Refused(own_id) ==
                     /\ pcs' = pcs
                     /\ empty => resp'.status = "invalid"
                     /\ (~empty /\ HoldersOf(form.ok_number, own_id) # {})
                           => resp'.status = "conflict"
             IN /\ (/\ (empty \/ HoldersOf(form.ok_number, NoId) # {})
                     /\ resp'.op = "add_pc"
                     /\ add_pc("admin", form))
                    => Refused(NoId)
                /\ \A p \in PcIds :
                      (/\ pcs[p].exists
                       /\ (empty \/ HoldersOf(form.ok_number, p) # {})
                       /\ resp'.op = "edit_pc"
                       /\ edit_pc("admin", p, form))
                      => Refused(p)]_vars

\* C18 witness: the update of a PC to the tag of the other PC was refused as a
\* conflict, after a PC had been registered anew.
PcTagCollisionRefused ==
    /\ resp.op = "edit_pc" /\ resp.status = "conflict"
    /\ \A p \in PcIds : pcs[p].exists
    /\ \E p \in PcIds : pcs[p].ok_number = "OK3"

\* C16: a loan is overdue exactly when it is Active, has a due date, and that
\* due date is strictly before today's local date; a loan due today is not
\* overdue, and a Returned loan is never overdue whatever its due date.
OverdueExactly ==
    (resp.op = "dashboard" /\ resp.status = "ok")
    => /\ \A l \in LoanIds :
             loans[l].exists =>
                /\ l \in resp.overdue <=> /\ l \in ActiveLoans
                                          /\ loans[l].due_date \in Days
                                          /\ loans[l].due_date < resp.today_local
                /\ loans[l].due_date = resp.today_local => l \notin resp.overdue
                /\ loans[l].is_returned => l \notin resp.overdue
       /\ resp.overdue_count = Cardinality(resp.overdue)

\* C16 witness: the dashboard marks an Active loan overdue while a Returned
\* loan whose due date is also past is not marked.
OverdueShown ==
    /\ resp.op = "dashboard" /\ resp.status = "ok"
    /\ \E l \in ActiveLoans : l \in resp.overdue
    /\ \E l \in LoanIds : /\ loans[l].exists /\ loans[l].is_returned
                           /\ loans[l].due_date # NoDate
                           /\ loans[l].due_date < resp.today_local

\* C17: adjustAvailability never fails and sets available to
\* min(total, max(0, available + delta)): createLoan that references a
\* StockItem succeeds and creates an Active loan also when available is 0, and
\* then leaves it at 0; the return of a loan raises available by 1 up to total.
ClampedNeverRefused ==
    [][/\ \A form \in FieldForms :
             (/\ form.borrower_name = "Ann" /\ form.item = "PC"
              /\ form.due_date_str \in {"", "0001-01-02"}
              /\ resp'.op = "new_loan" /\ new_loan("admin", form, 1))
             => /\ resp'.status = "ok"
                /\ loans'[nextLoanId].exists /\ ~loans'[nextLoanId].is_returned
                /\ loans'[nextLoanId].item_id = form.item_id
                /\ \A i \in ItemIds :
                      items'[i].stock_available =
                         IF i # form.item_id THEN Available(i)
                         ELSE IF Available(i) = 0 THEN 0
                         ELSE Min(Total(i), Max(0, Available(i) - 1))
       /\ \A l \in ActiveLoans :
             (resp'.op = "return_loan" /\ resp'.status = "ok" /\ resp'.loan_id = l)
             => \A i \in ItemIds :
                   items'[i].stock_available =
                      IF i # loans[l].item_id THEN Available(i)
                      ELSE Min(Total(i), Max(0, Available(i) + 1))]_vars

\* C17 witness: of two loans of an item with a single unit one has been
\* returned: the unit is available again although the other loan is still
\* Active, because its creation at available = 0 took nothing.
UnitBackWhileStillLent ==
    /\ resp.op = "return_loan" /\ resp.status = "ok"
    /\ LET i == loans[resp.loan_id].item_id
       IN /\ i # NoId
          /\ Total(i) = 1 /\ Available(i) = 1
          /\ ActiveOnItem(i) # {}

\* C19: a User who owns at least one loan, Active or Returned, cannot be
\* deleted, so in every reachable state the owning User of every loan exists.
LoanOwnersExist ==
    \A l \in LoanIds : loans[l].exists => users[loans[l].user_id].exists

\* C20: an acting user can neither revoke their own admin flag nor delete
\* their own account: toggleAdmin and deleteUser whose target is the acting
\* user are rejected and leave that user unchanged.
NoSelfRevokeOrDelete ==
    [][\A c \in Clients :
          LET me == session[c].user_id
          IN (/\ me # NoId
              /\ users[me].exists
              /\ \/ resp'.op = "toggle_admin" /\ toggle_admin(c, me)
                 \/ resp'.op = "delete_user" /\ delete_user(c, me))
             => resp'.status # "ok" /\ users'[me] = users[me]]_vars

\* C20 witness: user 2, made admin and logged in anew, asked for the deletion
\* of their own account, which owns no loan, and was refused for being the
\* acting user.
SelfDeleteRefused ==
    /\ resp.op = "delete_user" /\ resp.status = "self" /\ resp.loan_id = 2
    /\ users[2].exists /\ users[2].is_admin
    /\ \A l \in LoanIds : loans[l].exists => loans[l].user_id # 2

\* A name with every letter in lower case.
CaseFold(s) ==
    CASE s \in {"Ann", "ANN", "ann"} -> "ann"
      [] s \in {"Åse", "åse"} -> "åse"
      [] OTHER -> s

\* C21: findLastLoanByBorrower(name) returns, among the loans whose borrower
\* name equals name ignoring letter case, one with the latest checkout time,
\* and reports not found exactly when no loan matches.
LastLoanOfBorrower ==
    (resp.op = "api_borrower_last" /\ resp.status \in {"ok", "not_found"})
    => LET same == {l \in LoanIds : /\ loans[l].exists
                                    /\ CaseFold(loans[l].borrower_name)
                                          = CaseFold(resp.name)}
       IN IF same = {} THEN resp.status = "not_found"
          ELSE /\ resp.status = "ok"
               /\ resp.loan_id \in same
               /\ \A m \in same :
                     loans[m].checkout_date <= loans[resp.loan_id].checkout_date

\* C22: editLoan on an Active loan whose StockItem reference changes from A to
\* B (A # B, either possibly absent) raises A's available by 1 and lowers B's
\* by 1, each clamped to [0, total], together with the field update, and
\* leaves every other StockItem unchanged; when the reference is unchanged no
\* available count changes.
ItemSwapMovesOneUnit ==
    [][\A l \in ActiveLoans, form \in StockForms :
          (/\ resp'.op = "edit_loan" /\ resp'.status = "ok" /\ resp'.loan_id = l
           /\ edit_loan("admin", l, form))
          => LET A == loans[l].item_id
                 B == form.item_id
             IN /\ loans'[l].item_id = B
                /\ \A i \in ItemIds :
                      items'[i].stock_available =
                         IF A = B THEN Available(i)
                         ELSE IF i = A THEN Min(Total(i), Available(i) + 1)
                         ELSE IF i = B THEN Max(0, Available(i) - 1)
                         ELSE Available(i)]_vars

\* C22 witness: an Active loan was edited and references item 2, while the
\* single unit of item 1 is available although an Active loan references
\* item 1: the unit came back when the edited loan left item 1.
UnitMovedByEdit ==
    /\ resp.op = "edit_loan" /\ resp.status = "ok"
    /\ resp.loan_id \in ActiveOnItem(2)
    /\ Total(1) = 1 /\ Available(1) = 1
    /\ ActiveOnItem(1) # {}

\* C25: stock conservation: starting from a state where every StockItem has
\* available = total minus the number of Active loans that reference it, the
\* equality holds after any sequence of createLoan, editLoan, returnLoan and
\* deleteLoan executed one at a time.
StockConserved ==
    \A i \in ItemIds : Available(i) = Total(i) - Cardinality(ActiveOnItem(i))

\* C23: editLoan that changes the loan's PC reference to a PC held by another
\* Active loan fails with a conflict and changes no field of the loan; editLoan
\* that keeps the PC the loan already holds never fails with a conflict.
EditRespectsReservations ==
    [][\A l \in LoanIds, form \in PcForms :
          (/\ loans[l].exists
           /\ resp'.op = "edit_loan" /\ resp'.loan_id = l
           /\ edit_loan("admin", l, form))
          => /\ (/\ form.pc_id # NoId
                 /\ form.pc_id # loans[l].pc_id
                 /\ ActiveOnPc(form.pc_id) \ {l} # {})
                => resp'.status = "conflict" /\ loans' = loans
             /\ form.pc_id = loans[l].pc_id => resp'.status # "conflict"]_vars

\* C23 witness: the edit of an Active loan that holds a PC was refused as a
\* conflict, the other PC being held by the other Active loan.
EditOntoHeldPcRefused ==
    /\ resp.op = "edit_loan" /\ resp.status = "conflict"
    /\ resp.loan_id \in ActiveLoans
    /\ loans[resp.loan_id].pc_id # NoId
    /\ \E l \in ActiveLoans : /\ l # resp.loan_id
                               /\ loans[l].pc_id \notin {NoId, loans[resp.loan_id].pc_id}

\* C24: a PCAsset is loaned out exactly when some Active loan references it:
\* while such a loan exists every createLoan for that PC fails with a conflict,
\* and as soon as no Active loan references it (the loan was returned, deleted,
\* or edited to no PC or another PC) a createLoan for that PC succeeds.
PcFreeWhenNoActiveLoan ==
    [][\A form \in PcForms :
          (/\ form.pc_id # NoId
           /\ resp'.op = "new_loan"
           /\ new_loan("admin", form, 1))
          => IF ActiveOnPc(form.pc_id) # {}
             THEN resp'.status = "conflict" /\ loans' = loans /\ items' = items
             ELSE /\ resp'.status = "ok"
                  /\ ActiveOnPc(form.pc_id)' = {resp'.loan_id}]_vars

\* C24 witness: a loan of a PC was registered although an earlier, Returned loan
\* references the same PC.
PcLentAgain ==
    /\ resp.op = "new_loan" /\ resp.status = "ok"
    /\ resp.loan_id \in ActiveLoans
    /\ loans[resp.loan_id].pc_id # NoId
    /\ \E l \in LoanIds : /\ loans[l].exists /\ loans[l].is_returned
                           /\ loans[l].pc_id = loans[resp.loan_id].pc_id

\* C26: under any interleaving of concurrent ledger requests (returnLoan racing
\* with editLoan or deleteLoan on the same loan included), once all requests
\* have finished every StockItem that no Active loan references has
\* available = total: no unit stays reserved by a Returned or Deleted loan.
NoUnitLeftReserved ==
    RaceOver => \A i \in ItemIds : ActiveOnItem(i) = {} => Available(i) = Total(i)

\* C27: in every reachable state a loan's return timestamp is set if and only
\* if its returned flag is true: createLoan leaves both unset, returnLoan sets
\* both in one step, and no other operation changes either.
ReturnStampWithFlag ==
    /\ [](\A l \in LoanIds :
             loans[l].exists => (loans[l].return_date # NoDate <=> loans[l].is_returned))
    /\ [][\A l \in LoanIds :
             /\ (~loans[l].exists /\ loans'[l].exists)
                => ~loans'[l].is_returned /\ loans'[l].return_date = NoDate
             /\ (/\ loans[l].exists /\ loans'[l].exists
                 /\ \/ loans'[l].is_returned # loans[l].is_returned
                    \/ loans'[l].return_date # loans[l].return_date)
                => /\ resp'.op = "return_loan" /\ resp'.loan_id = l
                   /\ ~loans[l].is_returned /\ loans'[l].is_returned
                   /\ loans[l].return_date = NoDate /\ loans'[l].return_date # NoDate]_vars

\* C27 witness: a loan returned at instant 2 has since been edited, while the
\* other loan is Active and carries no return timestamp.
StampedLoanEdited ==
    /\ resp.op = "edit_loan" /\ resp.status = "ok"
    /\ loans[resp.loan_id].is_returned /\ loans[resp.loan_id].return_date = 2
    /\ \E l \in ActiveLoans : loans[l].return_date = NoDate

\* C28: admin-only operations are performed only by actors whose stored admin
\* flag is true at the time of the operation, also in a session opened before
\* the flag was revoked.
AdminOpsNeedStoredFlag ==
    [][\A c \in Clients :
          LET me == session[c].user_id
              performed ==
                  \/ resp'.op = "delete_loan" /\ \E l \in LoanIds : delete_loan(c, l)
                  \/ resp'.op = "toggle_admin" /\ \E u \in UserIds : toggle_admin(c, u)
                  \/ resp'.op = "delete_user" /\ \E u \in UserIds : delete_user(c, u)
          IN (resp'.status = "ok" /\ performed)
             => me # NoId /\ users[me].exists /\ users[me].is_admin]_vars

\* C29: editLoan never changes a loan's owning user, checkout timestamp,
\* returned flag or return timestamp, and never changes any other loan.
EditKeepsOwnerAndStamps ==
    [][\A l \in LoanIds :
          (loans[l].exists /\ resp'.op = "edit_loan" /\ resp'.loan_id = l)
          => /\ loans'[l].exists
             /\ loans'[l].user_id = loans[l].user_id
             /\ loans'[l].checkout_date = loans[l].checkout_date
             /\ loans'[l].is_returned = loans[l].is_returned
             /\ loans'[l].return_date = loans[l].return_date
             /\ \A o \in LoanIds \ {l} : loans'[o] = loans[o]]_vars

\* C29 witness: a loan registered by the non-admin and since returned has been
\* edited and references item 1; another loan exists.
ForeignLoanEdited ==
    /\ resp.op = "edit_loan" /\ resp.status = "ok"
    /\ loans[resp.loan_id].user_id = 2
    /\ loans[resp.loan_id].is_returned
    /\ loans[resp.loan_id].item_id = 1
    /\ \E l \in LoanIds \ {resp.loan_id} : loans[l].exists /\ loans[l].user_id = 1

====
